---- MODULE Spec2Model ----
(***************************************************************************)
(* Model of twisted/trial/assertions.py (Python 2).                        *)
(*                                                                         *)
(* Every assertion is a pure function from its arguments to an outcome:   *)
(* either a normal return carrying a value, or a raised exception carrying *)
(* its class and its constructor arguments.  A test performs one call      *)
(* through the module namespace: "call" is the name it uses and the        *)
(* arguments it passes, "out" the outcome it observes, "d" the Deferred it *)
(* hands to assertFailure, "trace" the operations performed on d so far.   *)
(***************************************************************************)
EXTENDS Integers, Sequences, FiniteSets, TLC

VARIABLES call, out, d, trace

vars == <<call, out, d, trace>>

(* ------------------------------ bounds --------------------------------- *)
MaxInt == 2          \* int objects 0..MaxInt are passed as arguments
MaxNum == 2          \* small numeric arguments range over -MaxNum..MaxNum units of 10^-7
MaxAsserts == 2      \* assertFailure is applied at most this many times to d
MaxExpected == 2     \* at most this many classes in *expectedFailures

(* --------------------------- Python objects ---------------------------- *)
\* An object: its class, its identity, its value.
None == [cls |-> "NoneType", id |-> 0, val |-> 0]

IntObj(n) == [cls |-> "int", id |-> 10 + n, val |-> n]

\* float('nan'): compares unequal to everything, itself included.
NaN == [cls |-> "nan", id |-> 5, val |-> 0]

\* Instance i of a user class that defines __eq__ (by value) and no __ne__.
EqOnlyObj(i) == [cls |-> "EqOnly", id |-> 100 + i, val |-> 7]

\* A class object, as returned by Failure.trap
ClassObj(k) == [cls |-> "classobj", id |-> 50, val |-> 0, name |-> k]

Values == {None, NaN, EqOnlyObj(1), EqOnlyObj(2)} \cup {IntObj(n) : n \in 0..MaxInt}

\* msg argument: omitted (None), empty, or custom text.
NoMsg == "<None>"

Msgs == {NoMsg, "", "custom"}

\* repr(v), the %r conversion
Repr(v) ==
    CASE v.cls = "NoneType" -> "None"
      [] v.cls = "nan"      -> "nan"
      [] v.cls = "int"      -> ToString(v.val)
      [] v.cls = "classobj" -> "<class " \o v.name \o ">"
      [] OTHER              -> "<EqOnly instance>"

\* Truth value of an object (if condition:)
Truthy(v) ==
    CASE v.cls = "NoneType" -> FALSE
      [] v.cls = "int"      -> v.val # 0
      [] OTHER              -> TRUE

\* first == second : rich comparison __eq__
PyEq(a, b) ==
    CASE a.cls = "nan" \/ b.cls = "nan" -> FALSE
      [] a.cls = "EqOnly" /\ b.cls = "EqOnly" -> a.val = b.val
      [] a.cls = "int" /\ b.cls = "int" -> a.val = b.val
      [] OTHER -> a.id = b.id

\* first != second : rich comparison __ne__; a class without __ne__ falls
\* back to the default comparison, which is by identity.
PyNe(a, b) ==
    CASE a.cls = "nan" \/ b.cls = "nan" -> TRUE
      [] a.cls = "int" /\ b.cls = "int" -> a.val # b.val
      [] OTHER -> a.id # b.id

\* first is second
PyIs(a, b) == a.id = b.id

(* ------------------------------ outcomes ------------------------------- *)
Return(v) == [tag |-> "return", value |-> v]

\* raise cls, arg : arg None instantiates cls(), anything else cls(arg)
Raise(cls, arg) == [tag |-> "raise", kind |-> cls, args |-> IF arg = NoMsg THEN <<>> ELSE <<arg>>]

\* msg or default : msg is used when it is truthy
MsgOr(msg, default) == IF msg = NoMsg \/ msg = "" THEN default ELSE msg

(* ------------------------- boolean assertions -------------------------- *)
failIf(condition, msg) ==
    IF Truthy(condition) THEN Raise("FailTest", msg) ELSE Return(condition)

\* failUnless supplying a default text, the way the comparisons do
failUnless_DefaultMsg(condition, msg) ==
    IF ~Truthy(condition)
    THEN Raise("FailTest", MsgOr(msg, Repr(condition) \o " is not true"))
    ELSE Return(condition)

failUnless(condition, msg) ==
    IF ~Truthy(condition) THEN Raise("FailTest", msg) ELSE Return(condition)

(* ------------------- equality / identity assertions -------------------- *)
failUnlessEqual(first, second, msg) ==
    IF ~PyEq(first, second)
    THEN Raise("FailTest", MsgOr(msg, Repr(first) \o " != " \o Repr(second)))
    ELSE Return(first)

failUnlessIdentical(first, second, msg) ==
    IF ~PyIs(first, second)
    THEN Raise("FailTest", MsgOr(msg, Repr(first) \o " is not " \o Repr(second)))
    ELSE Return(first)

failIfIdentical(first, second, msg) ==
    IF PyIs(first, second)
    THEN Raise("FailTest", MsgOr(msg, Repr(first) \o " is " \o Repr(second)))
    ELSE Return(first)

\* failIfEqual with the negation dropped
failIfEqual_Inverted(first, second, msg) ==
    IF PyNe(first, second)
    THEN Raise("FailTest", MsgOr(msg, Repr(first) \o " == " \o Repr(second)))
    ELSE Return(first)

failIfEqual(first, second, msg) ==
    IF ~PyNe(first, second)
    THEN Raise("FailTest", MsgOr(msg, Repr(first) \o " == " \o Repr(second)))
    ELSE Return(first)


(* ----------------------------- exceptions ------------------------------ *)
\* Base class of each exception class ("" above the root).
ExcParent(k) ==
    CASE k = "FailTest"          -> "AssertionError"
      [] k = "SkipTest"          -> "Exception"
      [] k = "AssertionError"    -> "StandardError"
      [] k = "ZeroDivisionError" -> "ArithmeticError"
      [] k = "ArithmeticError"   -> "StandardError"
      [] k = "ValueError"        -> "StandardError"
      [] k = "StandardError"     -> "Exception"
      [] OTHER                   -> ""

Kinds == {"Exception", "StandardError", "AssertionError", "FailTest", "SkipTest",
          "ArithmeticError", "ZeroDivisionError", "ValueError"}

RECURSIVE IsSubclass(_, _)
\* issubclass(k, e): the test made by "except e:" on an exception of class k
IsSubclass(k, e) ==
    IF k = e THEN TRUE
    ELSE IF k = "" THEN FALSE
    ELSE IsSubclass(ExcParent(k), e)

\* What calling f(*args, **kwargs) does: return, or raise an exception.
Callables == {[tag |-> "return", value |-> None]} \cup
             {[tag |-> "raise", kind |-> k, args |-> <<"boom">>] : k \in Kinds}

\* twisted.python.util.raises: 1 if f raised exception, 0 if f returned,
\* any other exception of f passes through.
raises(exception, f) ==
    IF f.tag = "return" THEN Return(0)
    ELSE IF IsSubclass(f.kind, exception) THEN Return(1)
    ELSE f

\* failure.Failure().getTraceback() for the exception being handled
getTraceback(e) == "Traceback: " \o e.kind \o ": " \o e.args[1]

\* failUnlessRaises without the bare "except:" clause
failUnlessRaises_NoCatchAll(exception, f) ==
    LET r == raises(exception, f) IN
    IF r.tag = "return"
    THEN IF r.value = 0
         THEN Raise("FailTest", exception \o " not raised")
         ELSE Return(None)
    ELSE r

\* failUnlessRaises without the "except FailTest: raise" clause
failUnlessRaises_NoReraise(exception, f) ==
    LET r == raises(exception, f) IN
    IF r.tag = "return"
    THEN IF r.value = 0
         THEN Raise("FailTest", exception \o " not raised")
         ELSE Return(None)
    ELSE Raise("FailTest", r.kind \o " raised instead of " \o exception
                            \o ":\n " \o getTraceback(r))

failUnlessRaises(exception, f) ==
    LET r == raises(exception, f) IN
    IF r.tag = "return"
    THEN IF r.value = 0
         THEN Raise("FailTest", exception \o " not raised")
         ELSE Return(None)
    ELSE IF IsSubclass(r.kind, "FailTest")
         THEN r
         ELSE Raise("FailTest", r.kind \o " raised instead of " \o exception
                                 \o ":\n " \o getTraceback(r))

(* ----------------------------- containment ----------------------------- *)
Containers == {<<>>, <<IntObj(1)>>, <<IntObj(0), IntObj(MaxInt)>>, <<NaN>>, <<EqOnlyObj(1), None>>}

RECURSIVE ReprItems(_)
ReprItems(c) ==
    IF c = <<>> THEN ""
    ELSE IF Len(c) = 1 THEN Repr(c[1])
    ELSE Repr(c[1]) \o ", " \o ReprItems(Tail(c))

ReprList(c) == "[" \o ReprItems(c) \o "]"

\* containee in container : identity first, then ==
PyIn(x, c) == \E i \in 1..Len(c) : PyIs(x, c[i]) \/ PyEq(x, c[i])

failUnlessIn(containee, container, msg) ==
    IF ~PyIn(containee, container)
    THEN Raise("FailTest", MsgOr(msg, Repr(containee) \o " not in " \o ReprList(container)))
    ELSE Return(containee)

failIfIn(containee, container, msg) ==
    IF PyIn(containee, container)
    THEN Raise("FailTest", MsgOr(msg, Repr(containee) \o " in " \o ReprList(container)))
    ELSE Return(containee)

(* ------------------------------ substrings ----------------------------- *)
\* A string is the sequence of its characters.
Strings == {<<>>, <<"l">>, <<"e", "l">>, <<"l", "e">>, <<"e", "l", "l">>, <<"h", "e", "l", "l", "o">>}

RECURSIVE ReprChars(_)
ReprChars(s) == IF s = <<>> THEN "" ELSE Head(s) \o ReprChars(Tail(s))

ReprStr(s) == "'" \o ReprChars(s) \o "'"

\* astring.find(substring): lowest index of an occurrence, -1 if none
find(astring, substring) ==
    LET n == Len(substring)
        hits == {i \in 0..(Len(astring) - n) : SubSeq(astring, i + 1, i + n) = substring}
    IN IF hits = {} THEN -1 ELSE CHOOSE i \in hits : \A j \in hits : i <= j

failUnlessSubstring(substring, astring, msg) ==
    IF find(astring, substring) = -1
    THEN Raise("FailTest", MsgOr(msg, ReprStr(substring) \o " not found in " \o ReprStr(astring)))
    ELSE Return(None)

failIfSubstring(substring, astring, msg) ==
    IF find(astring, substring) # -1
    THEN Raise("FailTest", MsgOr(msg, ReprStr(substring) \o " found in " \o ReprStr(astring)))
    ELSE Return(None)

(* --------------------------- numeric closeness ------------------------- *)
\* places=7: default number of decimal places.  Numbers are held exactly,
\* as integer multiples of 10^-DefaultPlaces.
DefaultPlaces == 7

RECURSIVE Pow10(_)
Pow10(n) == IF n = 0 THEN 1 ELSE 10 * Pow10(n - 1)

One == Pow10(DefaultPlaces)

Numbers == (-MaxNum..MaxNum) \cup {5, -5, One, One + 1, One + 5, One + One \div 100, 2 * One}

PlacesArgs == {0, 2, 6, DefaultPlaces}

Tolerances == (0..MaxNum) \cup {One \div 100}

Abs(x) == IF x < 0 THEN -x ELSE x

\* round(x, places): to a multiple of 10^-places, halves away from zero
Round(x, places) ==
    LET u == Pow10(DefaultPlaces - places)
        q == (Abs(x) + u \div 2) \div u
    IN IF x < 0 THEN -(q * u) ELSE q * u

\* %r / %s of a number or of places
NumRepr(x) == ToString(x)

failIfAlmostEqual(first, second, places, msg) ==
    IF Round(second - first, places) = 0
    THEN Raise("FailTest", MsgOr(msg, NumRepr(first) \o " == " \o NumRepr(second)
                                       \o " within " \o NumRepr(places) \o " places"))
    ELSE Return(None)

\* failUnlessAlmostEqual comparing the difference itself, not rounded
failUnlessAlmostEqual_NoRound(first, second, places, msg) ==
    IF second - first # 0
    THEN Raise("FailTest", MsgOr(msg, NumRepr(first) \o " != " \o NumRepr(second)
                                       \o " within " \o NumRepr(places) \o " places"))
    ELSE Return(None)

failUnlessAlmostEqual(first, second, places, msg) ==
    IF Round(second - first, places) # 0
    THEN Raise("FailTest", MsgOr(msg, NumRepr(first) \o " != " \o NumRepr(second)
                                       \o " within " \o NumRepr(places) \o " places"))
    ELSE Return(None)

\* assertApproximates with a non-strict comparison
assertApproximates_NonStrict(first, second, tolerance, msg) ==
    IF Abs(first - second) >= tolerance
    THEN Raise("FailTest", MsgOr(msg, NumRepr(first) \o " ~== " \o NumRepr(second)))
    ELSE Return(first)

assertApproximates(first, second, tolerance, msg) ==
    IF Abs(first - second) > tolerance
    THEN Raise("FailTest", MsgOr(msg, NumRepr(first) \o " ~== " \o NumRepr(second)))
    ELSE Return(first)

(* ------------------------------ Deferred ------------------------------- *)
\* twisted.internet.defer.Deferred: whether it has been fired, its current
\* result, the (callback, errback) pairs waiting to run.
NewDeferred == [called |-> FALSE, result |-> [tag |-> "none"], callbacks |-> <<>>]

Success(v) == [tag |-> "ok", value |-> v]

\* failure.Failure wrapping an exception of class k
Failure(k, a) == [tag |-> "fail", kind |-> k, args |-> a]

\* Failure.check(*errorTypes): position of the first listed class the
\* failure's class derives from, 0 if none
check(f, errorTypes) ==
    LET hits == {i \in 1..Len(errorTypes) : IsSubclass(f.kind, errorTypes[i])}
    IN IF hits = {} THEN 0 ELSE CHOOSE i \in hits : \A j \in hits : i <= j

\* Failure.trap(*errorTypes): the matched class, or re-raise the failure
trap(f, errorTypes) ==
    LET i == check(f, errorTypes) IN
    IF i = 0 THEN f ELSE Success(ClassObj(errorTypes[i]))

\* _cb of assertFailure
_cb(ignore) ==
    Failure("FailTest", <<"did not catch an error, instead got " \o Repr(ignore)>>)

\* One handler applied to the current result; what it returns or raises
\* becomes the Deferred's result.
RunHandler(h, result) ==
    CASE h.fn = "_cb"  -> _cb(result.value)
      [] h.fn = "trap" -> trap(result, h.expected)
      [] OTHER         -> result

RECURSIVE RunChain(_, _)
\* Deferred._runCallbacks: each pair in turn, its errback when the result
\* is a Failure, its callback otherwise
RunChain(cbs, result) ==
    IF cbs = <<>> THEN result
    ELSE LET item == Head(cbs)
             h == IF result.tag = "fail" THEN item.eb ELSE item.cb
         IN RunChain(Tail(cbs), RunHandler(h, result))

_runCallbacks(df) ==
    [df EXCEPT !.result = RunChain(df.callbacks, df.result), !.callbacks = <<>>]

\* Deferred.addCallbacks(callback, errback): one pair, run at once when the
\* Deferred has already fired
addCallbacks(df, callback, errback) ==
    LET df2 == [df EXCEPT !.callbacks = Append(@, [cb |-> callback, eb |-> errback])]
    IN IF df.called THEN _runCallbacks(df2) ELSE df2

\* Deferred.callback(result) / Deferred.errback(fail)
_startRunCallbacks(df, result) ==
    _runCallbacks([df EXCEPT !.called = TRUE, !.result = result])

\* assertFailure whose errback traps nothing
assertFailure_NoTrap(deferred, expectedFailures) ==
    addCallbacks(deferred, [fn |-> "_cb"], [fn |-> "trap", expected |-> <<>>])

\* assertFailure adding the callback and then the errback as two steps
assertFailure_Chained(deferred, expectedFailures) ==
    addCallbacks(addCallbacks(deferred, [fn |-> "_cb"], [fn |-> "passthru"]),
                 [fn |-> "passthru"], [fn |-> "trap", expected |-> expectedFailures])

assertFailure(deferred, expectedFailures) ==
    addCallbacks(deferred, [fn |-> "_cb"], [fn |-> "trap", expected |-> expectedFailures])

(* -------------------------- module namespace --------------------------- *)
CanonicalNames == {"failIf", "failUnless", "failUnlessRaises", "failUnlessEqual",
                   "failUnlessIdentical", "failIfIdentical", "failIfEqual",
                   "failUnlessIn", "failIfIn", "failIfAlmostEqual",
                   "failUnlessAlmostEqual", "assertApproximates", "assertFailure",
                   "failUnlessSubstring", "failIfSubstring"}

\* A namespace in which assertNotEquals is bound to the wrong function
Binding_Swapped(name) ==
    CASE name \in {"assertAlmostEqual", "assertAlmostEquals"}       -> "failUnlessAlmostEqual"
      [] name \in {"assertNotAlmostEqual", "assertNotAlmostEquals"} -> "failIfAlmostEqual"
      [] name \in {"assertEqual", "assertEquals", "assertNotEquals"} -> "failUnlessEqual"
      [] name = "assertNotEqual"                                    -> "failIfEqual"
      [] name = "assertRaises"                                      -> "failUnlessRaises"
      [] name = "assert_"                                           -> "failUnless"
      [] name = "failIfEquals"                                      -> "failIfEqual"
      [] name = "assertIdentical"                                   -> "failUnlessIdentical"
      [] name = "assertNotIdentical"                                -> "failIfIdentical"
      [] name = "assertIn"                                          -> "failUnlessIn"
      [] name = "assertNotIn"                                       -> "failIfIn"
      [] name = "failUnlessFailure"                                 -> "assertFailure"
      [] name = "assertSubstring"                                   -> "failUnlessSubstring"
      [] name = "assertNotSubstring"                                -> "failIfSubstring"
      [] OTHER                                                      -> name

\* The function each public name is bound to.
Binding(name) ==
    CASE name \in {"assertAlmostEqual", "assertAlmostEquals"}       -> "failUnlessAlmostEqual"
      [] name \in {"assertNotAlmostEqual", "assertNotAlmostEquals"} -> "failIfAlmostEqual"
      [] name \in {"assertEqual", "assertEquals"}                   -> "failUnlessEqual"
      [] name \in {"assertNotEqual", "assertNotEquals"}             -> "failIfEqual"
      [] name = "assertRaises"                                      -> "failUnlessRaises"
      [] name = "assert_"                                           -> "failUnless"
      [] name = "failIfEquals"                                      -> "failIfEqual"
      [] name = "assertIdentical"                                   -> "failUnlessIdentical"
      [] name = "assertNotIdentical"                                -> "failIfIdentical"
      [] name = "assertIn"                                          -> "failUnlessIn"
      [] name = "assertNotIn"                                       -> "failIfIn"
      [] name = "failUnlessFailure"                                 -> "assertFailure"
      [] name = "assertSubstring"                                   -> "failUnlessSubstring"
      [] name = "assertNotSubstring"                                -> "failIfSubstring"
      [] OTHER                                                      -> name

AliasNames == {"assertAlmostEqual", "assertAlmostEquals", "assertNotAlmostEqual",
               "assertNotAlmostEquals", "assertEqual", "assertEquals", "assertNotEqual",
               "assertNotEquals", "assertRaises", "assert_", "failIfEquals",
               "assertIdentical", "assertNotIdentical", "assertIn", "assertNotIn",
               "failUnlessFailure", "assertSubstring", "assertNotSubstring"}

Names == CanonicalNames \cup AliasNames

NamesOf(fs) == {n \in Names : Binding(n) \in fs}

\* The function object f applied to the arguments of call c.
Invoke(f, c) ==
    CASE f = "failIf"                -> failIf(c.condition, c.msg)
      [] f = "failUnless"            -> failUnless(c.condition, c.msg)
      [] f = "failUnlessRaises"      -> failUnlessRaises(c.exception, c.f)
      [] f = "failUnlessEqual"       -> failUnlessEqual(c.first, c.second, c.msg)
      [] f = "failUnlessIdentical"   -> failUnlessIdentical(c.first, c.second, c.msg)
      [] f = "failIfIdentical"       -> failIfIdentical(c.first, c.second, c.msg)
      [] f = "failIfEqual"           -> failIfEqual(c.first, c.second, c.msg)
      [] f = "failUnlessIn"          -> failUnlessIn(c.containee, c.container, c.msg)
      [] f = "failIfIn"              -> failIfIn(c.containee, c.container, c.msg)
      [] f = "failIfAlmostEqual"     -> failIfAlmostEqual(c.first, c.second, c.places, c.msg)
      [] f = "failUnlessAlmostEqual" -> failUnlessAlmostEqual(c.first, c.second, c.places, c.msg)
      [] f = "assertApproximates"    -> assertApproximates(c.first, c.second, c.tolerance, c.msg)
      [] f = "failUnlessSubstring"   -> failUnlessSubstring(c.substring, c.astring, c.msg)
      [] f = "failIfSubstring"       -> failIfSubstring(c.substring, c.astring, c.msg)

(* ------------------------------- tests --------------------------------- *)
BooleanFns == {"failIf", "failUnless"}
EqualityFns == {"failUnlessEqual", "failIfEqual", "failUnlessIdentical", "failIfIdentical"}
RaisesFns == {"failUnlessRaises"}
InFns == {"failUnlessIn", "failIfIn"}
SubstringFns == {"failUnlessSubstring", "failIfSubstring"}
AlmostFns == {"failUnlessAlmostEqual", "failIfAlmostEqual"}
ApproxFns == {"assertApproximates"}
FailureFns == {"assertFailure"}

\* *expectedFailures: tuples of at most MaxExpected exception classes
RECURSIVE TuplesUpTo(_, _)
TuplesUpTo(S, n) ==
    IF n = 0 THEN {<<>>}
    ELSE LET T == TuplesUpTo(S, n - 1) IN T \cup {Append(t, x) : t \in T, x \in S}

ExpectedTuples == TuplesUpTo(Kinds, MaxExpected)

\* Results the Deferred can be fired with
CallbackResults == {None, IntObj(1)}

Calls ==
    {[fn |-> n, condition |-> c, msg |-> m] :
        n \in NamesOf(BooleanFns), c \in Values, m \in Msgs}
    \cup {[fn |-> n, first |-> a, second |-> b, msg |-> m] :
        n \in NamesOf(EqualityFns), a \in Values, b \in Values, m \in Msgs}
    \cup {[fn |-> n, exception |-> e, f |-> f] :
        n \in NamesOf(RaisesFns), e \in Kinds, f \in Callables}
    \cup {[fn |-> n, containee |-> x, container |-> c, msg |-> m] :
        n \in NamesOf(InFns), x \in Values, c \in Containers, m \in Msgs}
    \cup {[fn |-> n, substring |-> x, astring |-> s, msg |-> m] :
        n \in NamesOf(SubstringFns), x \in Strings, s \in Strings, m \in Msgs}
    \cup {[fn |-> n, first |-> a, second |-> b, places |-> p, msg |-> m] :
        n \in NamesOf(AlmostFns), a \in Numbers, b \in Numbers, p \in PlacesArgs, m \in Msgs}
    \cup {[fn |-> n, first |-> a, second |-> b, tolerance |-> t, msg |-> m] :
        n \in NamesOf(ApproxFns), a \in Numbers, b \in Numbers, t \in Tolerances, m \in Msgs}
    \cup {[fn |-> n, expected |-> e] :
        n \in NamesOf(FailureFns), e \in ExpectedTuples}

Pending == [tag |-> "pending"]

Init ==
    /\ call \in Calls
    /\ out = Pending
    /\ d = NewDeferred
    /\ trace = <<>>

\* The test calls a synchronous assertion of the given family.
CallSync(fs) ==
    /\ out = Pending
    /\ Binding(call.fn) \in fs
    /\ out' = Invoke(Binding(call.fn), call)
    /\ UNCHANGED <<call, d, trace>>

CallBoolean == CallSync(BooleanFns)
CallEquality == CallSync(EqualityFns)
CallRaises == CallSync(RaisesFns)
CallIn == CallSync(InFns)
CallSubstring == CallSync(SubstringFns)
CallAlmostEqual == CallSync(AlmostFns)
CallApproximates == CallSync(ApproxFns)

Attached == Len(SelectSeq(trace, LAMBDA ev : ev.op = "assertFailure"))

\* The test applies assertFailure to d; the Deferred itself is returned.
CallAssertFailure ==
    /\ Binding(call.fn) \in FailureFns
    /\ Attached < MaxAsserts
    /\ d' = assertFailure(d, call.expected)
    /\ out' = Return("d")
    /\ trace' = Append(trace, [op |-> "assertFailure"])
    /\ UNCHANGED call

\* The asynchronous operation completes successfully: d.callback(v)
FireCallback ==
    /\ call.fn \in NamesOf(FailureFns)
    /\ ~d.called
    /\ \E v \in CallbackResults :
         /\ d' = _startRunCallbacks(d, Success(v))
         /\ trace' = Append(trace, [op |-> "callback", result |-> Success(v)])
    /\ UNCHANGED <<call, out>>

\* The asynchronous operation fails: d.errback(Failure(k))
FireErrback ==
    /\ call.fn \in NamesOf(FailureFns)
    /\ ~d.called
    /\ \E k \in Kinds :
         /\ d' = _startRunCallbacks(d, Failure(k, <<"boom">>))
         /\ trace' = Append(trace, [op |-> "errback", result |-> Failure(k, <<"boom">>)])
    /\ UNCHANGED <<call, out>>

Next ==
    \/ CallBoolean
    \/ CallEquality
    \/ CallRaises
    \/ CallIn
    \/ CallSubstring
    \/ CallAlmostEqual
    \/ CallApproximates
    \/ CallAssertFailure
    \/ FireCallback
    \/ FireErrback

Spec == Init /\ [][Next]_vars

(* ============================== properties ============================= *)
Done == out.tag # "pending"

Fn == Binding(call.fn)

\* An expected class that the error class k is, or derives from
Expects(k, expected) == \E i \in 1..Len(expected) : IsSubclass(k, expected[i])

C2_NestedFailTestUnchanged ==
    (/\ Fn = "failUnlessRaises" /\ Done
     /\ call.f.tag = "raise" /\ call.f.kind = "FailTest"
     /\ ~IsSubclass("FailTest", call.exception))
        => (out.tag = "raise" /\ out.kind = "FailTest" /\ out.args = call.f.args)

C2_Witness ==
    /\ Fn = "failUnlessRaises" /\ Done
    /\ call.exception = "ValueError"
    /\ call.f.tag = "raise" /\ call.f.kind = "FailTest"
    /\ out.args = <<"boom">>

\* The callback / errback event by which d was completed
Completion == CHOOSE ev \in {trace[i] : i \in 1..Len(trace)} : ev.op # "assertFailure"

Completed == d.called /\ Attached = 1 /\ Fn = "assertFailure"

\* C3: with assertFailure's handlers attached, a Deferred that completes
\* successfully ends as a failure carrying FailTest; one that completes with
\* a failure of an expected kind ends as a success; one that completes with
\* any other failure (also when nothing is expected) keeps that failure.
C3_AssertFailureOutcome ==
    Completed =>
        /\ (Completion.op = "callback") =>
               (d.result.tag = "fail" /\ d.result.kind = "FailTest")
        /\ (Completion.op = "errback" /\ Expects(Completion.result.kind, call.expected)) =>
               (d.result.tag = "ok")
        /\ (Completion.op = "errback" /\ ~Expects(Completion.result.kind, call.expected)) =>
               (d.result = Completion.result)

\* an expected failure arrived and the outcome is a success
C3_Witness ==
    /\ Completed
    /\ Completion.op = "errback" /\ Completion.result.kind = "ZeroDivisionError"
    /\ call.expected = <<"ValueError", "ArithmeticError">>
    /\ d.result.tag = "ok"

\* The canonical function each alias stands for
CanonicalOf(name) ==
    CASE name \in {"assertEqual", "assertEquals"}                           -> "failUnlessEqual"
      [] name \in {"assertNotEqual", "assertNotEquals", "failIfEquals"}     -> "failIfEqual"
      [] name \in {"assertAlmostEqual", "assertAlmostEquals"}               -> "failUnlessAlmostEqual"
      [] name \in {"assertNotAlmostEqual", "assertNotAlmostEquals"}         -> "failIfAlmostEqual"
      [] name = "assertRaises"                                              -> "failUnlessRaises"
      [] name = "assert_"                                                   -> "failUnless"
      [] name = "assertIdentical"                                           -> "failUnlessIdentical"
      [] name = "assertNotIdentical"                                        -> "failIfIdentical"
      [] name = "assertIn"                                                  -> "failUnlessIn"
      [] name = "assertNotIn"                                               -> "failIfIn"
      [] name = "failUnlessFailure"                                         -> "assertFailure"
      [] name = "assertSubstring"                                           -> "failUnlessSubstring"
      [] name = "assertNotSubstring"                                        -> "failIfSubstring"

\* C4: a call through an alias name has the outcome (return value, or
\* FailTest with the same message) of the same call through its canonical
\* function; for failUnlessFailure, the same handlers on the Deferred.
C4_AliasesIndistinguishable ==
    (call.fn \in AliasNames /\ Done) =>
        IF call.fn = "failUnlessFailure"
        THEN /\ out = Return("d")
             /\ (trace = <<[op |-> "assertFailure"]>>) =>
                    (d = assertFailure(NewDeferred, call.expected))
        ELSE out = Invoke(CanonicalOf(call.fn), call)

\* an alias raised FailTest with the default message
C4_Witness ==
    /\ call.fn = "assertNotEquals" /\ Done
    /\ call.msg = NoMsg
    /\ out.tag = "raise" /\ out.args = <<"1 == 1">>

SameObject == call.first.id = call.second.id

\* C5 as stated: for all x, failUnlessEqual(x, x) returns x and
\* failIfEqual(x, x) raises FailTest.
C5_Original ==
    (Done /\ Fn \in {"failUnlessEqual", "failIfEqual"} /\ SameObject) =>
        /\ (Fn = "failUnlessEqual") => (out = Return(call.first))
        /\ (Fn = "failIfEqual") => (out.tag = "raise" /\ out.kind = "FailTest")

\* C5 amended: for all x that compare equal to themselves (x == x true and
\* x != x false, which leaves out NaN), failUnlessEqual(x, x) returns x and
\* failIfEqual(x, x) raises FailTest.
C5_ReflexiveValues ==
    (/\ Done /\ Fn \in {"failUnlessEqual", "failIfEqual"} /\ SameObject
     /\ PyEq(call.first, call.first) /\ ~PyNe(call.first, call.first)) =>
        /\ (Fn = "failUnlessEqual") => (out = Return(call.first))
        /\ (Fn = "failIfEqual") => (out.tag = "raise" /\ out.kind = "FailTest")

C5_Witness ==
    /\ Done /\ Fn = "failIfEqual" /\ SameObject
    /\ call.first = EqOnlyObj(1)
    /\ out.tag = "raise"

\* C6: failIfEqual(first, second) raises FailTest exactly when
\* first == second, otherwise returns first; so exactly one of
\* failUnlessEqual and failIfEqual raises on any pair.
C6_FailIfEqualIsEquality ==
    (Done /\ Fn = "failIfEqual") =>
        /\ (out.tag = "raise") <=> PyEq(call.first, call.second)
        /\ (out.tag = "return") => (out.value = call.first)
        /\ (out.tag = "raise") # (failUnlessEqual(call.first, call.second, call.msg).tag = "raise")

C8_AlmostEqualComplementary ==
    (Done /\ Fn \in AlmostFns) =>
        LET zero == Round(call.second - call.first, call.places) = 0
            other == IF Fn = "failIfAlmostEqual" THEN "failUnlessAlmostEqual"
                     ELSE "failIfAlmostEqual"
        IN /\ (Fn = "failUnlessAlmostEqual") => ((out.tag = "raise") <=> ~zero)
           /\ (Fn = "failIfAlmostEqual") => ((out.tag = "raise") <=> zero)
           /\ (out.tag = "raise") => (out.kind = "FailTest")
           /\ (out.tag = "raise") # (Invoke(other, call).tag = "raise")

\* a nonzero difference that rounds to zero: failUnlessAlmostEqual succeeded
C8_Witness ==
    /\ Done /\ Fn = "failUnlessAlmostEqual"
    /\ call.first = One /\ call.second = One + 1 /\ call.places = 6
    /\ out.tag = "return"

OmittedMsg == call.msg = NoMsg

\* C9 as stated: failIf / failUnless raising with the message omitted carry
\* a non-empty default message; otherwise they return the condition.
C9_Original ==
    (Done /\ Fn \in BooleanFns) =>
        /\ (out.tag = "raise" /\ OmittedMsg) => (out.args # <<>> /\ out.args[1] # "")
        /\ (out.tag = "return") => (out.value = call.condition)

\* C9 amended: failIf / failUnless raising with the message omitted carry no
\* message at all (FailTest is built without arguments); when the condition
\* does not trigger a failure they return the condition unchanged.
C9_NoDefaultMessage ==
    (Done /\ Fn \in BooleanFns) =>
        /\ (out.tag = "raise" /\ OmittedMsg) => (out.kind = "FailTest" /\ out.args = <<>>)
        /\ (out.tag = "return") => (out.value = call.condition)

C9_Witness ==
    /\ Done /\ Fn = "failUnless" /\ OmittedMsg
    /\ call.condition = IntObj(0)
    /\ out.tag = "raise" /\ out.args = <<>>

\* C10: the FailTest raised by assertFailure's success handler is not seen
\* by its own trapping handler: a Deferred completed successfully ends as a
\* failure carrying FailTest even when FailTest or a base class of it is
\* among the expected kinds.
C10_PairedHandlers ==
    (/\ Completed /\ Completion.op = "callback"
     /\ Expects("FailTest", call.expected)) =>
        (d.result.tag = "fail" /\ d.result.kind = "FailTest")

C10_Witness ==
    /\ Completed /\ Completion.op = "callback"
    /\ call.expected = <<"AssertionError">>
    /\ trace[1].op = "assertFailure"
    /\ d.result.tag = "fail" /\ d.result.kind = "FailTest"

====
